---------------------------- MODULE Spec2Model ----------------------------
(***************************************************************************)
(* The ccusage pricing engine of backend/pricing: the table parser         *)
(* (PricingViewSet._parse_ccusage_output), the TTL cache (PricingCache)    *)
(* and the request handler that guards the subprocess with it              *)
(* (PricingViewSet.execute_ccusage, get_cached_data, clear_cache).         *)
(*                                                                         *)
(* Text is modelled at the level the code inspects it: an output is a      *)
(* sequence of lines, a line is the sequence of cells that split on the    *)
(* vertical bar yields (a line without a bar is a single cell), and a cell *)
(* is a string of a finite vocabulary whose regular-expression matches     *)
(* are tabulated below.  Money is counted in mills (1/1000 dollar) so that *)
(* round(x, 2) is a real rounding.  Time is counted in seconds.            *)
(***************************************************************************)
EXTENDS Integers, Sequences, FiniteSets, TLC

\* The parser's run: the text it is given, split into lines; the index of
\* the next line; the loop's current_year and daily_entries; the report
\* data; the stage the run is at; and the wall clock the run reads.
VARIABLES output, i, current_year, daily_entries, data, phase, clock

parserVars == <<output, i, current_year, daily_entries, data, phase, clock>>

\* The service: the wall clock in seconds; the pricing_cache and pricing_data
\* tables; per request handler, its position, its subprocess and the response
\* it returns; the response of the last get_cached_data.
VARIABLES now, cache, history, pc, proc, resp, lookup

\* What the checks remember of the past: the number of times the tool was
\* started, and the stores into the cache since the last clear, oldest first,
\* each with its data and its instant.
VARIABLES invocations, stores

serviceVars ==
    <<now, cache, history, pc, proc, resp, lookup, invocations, stores>>

\* The sanitizing of a text, character by character: the text as the tool
\* printed it, the text after the colour codes were removed from its lines,
\* and the number of times the removal was applied.
VARIABLES text, clean_text, passes

sanitizerVars == <<text, clean_text, passes>>

\* The frontend control endpoints: the body of the request being answered,
\* the response it is given, and the trigger files under /tmp, by trigger
\* type.
VARIABLES request, response, trigger_files

controlVars == <<request, response, trigger_files>>

\* The terminal status endpoint: the status file and the frontend's response
\* file under /tmp, the time the handler has waited for the frontend, in
\* tenths of a second, and whether a request is waiting.
VARIABLES status_file, response_file, wait_time, waiting

terminalVars == <<status_file, response_file, wait_time, waiting>>

vars == <<parserVars, serviceVars, sanitizerVars, controlVars, terminalVars>>

\* ------------------------------------------------------------------ bounds

\* Longest parser input, in lines.
MaxLines == 3

\* Number of request handlers that may run concurrently.
NumRequests == 2

\* Largest number of rows of the pricing_data table (successful runs).
MaxRuns == 2

\* Last instant of the clock, in seconds.
MaxTime == 330

\* Largest amount of time that passes in one step of the clock, in seconds.
TickSec == 300

\* Longest text given to the sanitizer, in characters.
MaxChars == 5

\* ------------------------------------------------------- program constants

\* subprocess.run(..., timeout=30)
TimeoutSec == 30

\* timezone.timedelta(minutes=5)
TTLMinutes == 5

TTLSec == TTLMinutes * 60

\* cache_key = "ccusage_data"
CacheKey == "ccusage_data"

\* Python's None, for optional numbers: None is <<>> and a value x is <<x>>.
None == <<>>

Some(x) == <<x>>

\* Python's None where a string is expected (current_year, date_part).
NoneStr == "None"

\* ------------------------------------------------------------ cell tables

\* re.sub(r'\[[0-9;]*m', '', line): the pseudo-ANSI colour codes are removed.
StripAnsi(c) ==
    CASE c = "[36m2025[39m" -> "2025"
      [] c = "[1m$3.00[0m" -> "$3.00"
      [] OTHER -> c

\* 'Total' in clean_line
HasTotal(c) ==
    c \in {"Total", "Total $", "Total $42.00", "Total $7.10", "Total Tokens"}

\* any(x in clean_line for x in ['Date', 'Models', 'Input', 'Output', 'Cache', 'Total'])
HasHeaderToken(c) ==
    \/ HasTotal(c)
    \/ c \in {"Date", "Models", "Input", "Output", "Cache Create", "Cache Read"}

\* '$' in text
HasDollar(c) ==
    c \in {"$12.50", "$3.00", "$0.125", "$7.10", "$", "Total $", "Total $42.00",
           "Total $7.10"}

\* re.search(r'\$(\d+\.?\d*)', text) and float(group(1)), in mills.
Amount(c) ==
    CASE c = "$12.50" -> Some(12500)
      [] c = "$3.00" -> Some(3000)
      [] c = "$0.125" -> Some(125)
      [] c = "$7.10" -> Some(7100)
      [] c = "Total $42.00" -> Some(42000)
      [] c = "Total $7.10" -> Some(7100)
      [] OTHER -> None

\* re.search(r'(20\d{2})', text).group(1)
YearToken(c) ==
    CASE c = "2025" -> "2025"
      [] c = "2024" -> "2024"
      [] c = "2025 07-26" -> "2025"
      [] c = "2024 07-26" -> "2024"
      [] c = "2025 07-20" -> "2025"
      [] c = "2024 07-20" -> "2024"
      [] c = "2025 06-20" -> "2025"
      [] c = "2024 06-20" -> "2024"
      [] c = "2025 13-45" -> "2025"
      [] c = "2024 13-45" -> "2024"
      [] c = "2025 None" -> "2025"
      [] c = "2024 None" -> "2024"
      [] OTHER -> NoneStr

\* re.search(r'(\d{2})-(\d{2})', text): the groups as <<month, day>>.
MonthDay(c) ==
    CASE c \in {"07-26", "2025 07-26", "2024 07-26"} -> <<7, 26>>
      [] c \in {"07-20", "2025 07-20", "2024 07-20"} -> <<7, 20>>
      [] c \in {"06-20", "2025 06-20", "2024 06-20"} -> <<6, 20>>
      [] c \in {"13-45", "2025 13-45", "2024 13-45"} -> <<13, 45>>
      [] OTHER -> <<>>

\* int(year_match.group(1))
YearNumber(y) == IF y = "2025" THEN 2025 ELSE 2024

\* text.replace('-', '').strip()
RemoveDashes(c) ==
    CASE c = "sonnet-4" -> "sonnet4"
      [] c = "opus-4" -> "opus4"
      [] c = "-" -> ""
      [] OTHER -> c

\* f"{entry['year']} {entry['date_part']}"
FullDate(year, date_part) ==
    CASE year = "2025" /\ date_part = "07-26" -> "2025 07-26"
      [] year = "2024" /\ date_part = "07-26" -> "2024 07-26"
      [] year = "2025" /\ date_part = "07-20" -> "2025 07-20"
      [] year = "2024" /\ date_part = "07-20" -> "2024 07-20"
      [] year = "2025" /\ date_part = "06-20" -> "2025 06-20"
      [] year = "2024" /\ date_part = "06-20" -> "2024 06-20"
      [] year = "2025" /\ date_part = "13-45" -> "2025 13-45"
      [] year = "2024" /\ date_part = "13-45" -> "2024 13-45"
      [] year = "2025" /\ date_part = NoneStr -> "2025 None"
      [] OTHER -> "2024 None"

\* ------------------------------------------------------------- the parser

\* The cells of a table row as the tool prints it: "| date | models | input |
\* output | cache create | cache read | total tokens | cost |" splits into ten
\* cells, the first and the last empty.
Row(date, model, cost) == <<"", date, model, "", "", "", "", "", cost, "">>

\* clean_line = re.sub(r'\[[0-9;]*m', '', line), cell by cell (a colour code
\* holds no vertical bar, so stripping commutes with the split).
CleanLine(line) == [k \in 1..Len(line) |-> StripAnsi(line[k])]

\* '\u2502' in clean_line
HasBar(line) == Len(line) > 1

LineHasHeaderToken(line) == \E k \in 1..Len(line) : HasHeaderToken(line[k])

LineHasTotal(line) == \E k \in 1..Len(line) : HasTotal(line[k])

LineHasDollar(line) == \E k \in 1..Len(line) : HasDollar(line[k])

\* re.search(r'\$(\d+\.?\d*)', clean_line): the leftmost match of the line.
LineAmount(line) ==
    LET hits == {k \in 1..Len(line) : Amount(line[k]) # None}
    IN  IF hits = {} THEN None
        ELSE Amount(line[CHOOSE k \in hits : \A j \in hits : k <= j])

\* The lines the loop skips before it looks at columns: no vertical bar, or a
\* header token.
IsSkippedLine(line) == ~HasBar(line) \/ LineHasHeaderToken(line)

\* A variant that reads a total from free-text lines only, never from a
\* table line.
CarriesTotalFreeTextOnly(line) ==
    /\ ~HasBar(line)
    /\ LineHasTotal(line)
    /\ LineHasDollar(line)
    /\ LineAmount(line) # None

\* Whether the skipped line sets data['total_cost'].
CarriesTotal(line) ==
    /\ IsSkippedLine(line)
    /\ LineHasTotal(line)
    /\ LineHasDollar(line)
    /\ LineAmount(line) # None

\* if len(columns) < 9: continue
MinColumns == 9

\* columns[1], columns[2] (Python counts from 0).
DateCol(line) == line[2]

ModelCol(line) == line[3]

\* columns[8].strip() if len(columns) > 8 else columns[-1].strip()
CostCol(line) == IF Len(line) > 8 THEN line[9] ELSE line[Len(line)]

\* model_name of a year row
YearRowModel(model_col) ==
    IF model_col # "" THEN RemoveDashes(model_col) ELSE "unknown"

\* daily_entries.append({... 'date_part': None, 'complete': False})
PendingEntry(year, model, cost) ==
    [year |-> year, date_part |-> NoneStr, model |-> model, cost |-> cost,
     complete |-> FALSE]

\* daily_entries.append({... 'date_part': date_part, 'complete': True})
CompleteEntry(year, date_part, model, cost) ==
    [year |-> year, date_part |-> date_part, model |-> model, cost |-> cost,
     complete |-> TRUE]

\* The year row: current_year is set, and a row with a cost is appended as a
\* pending entry.
YearRow(st, line) ==
    LET year == YearToken(DateCol(line))
        cost == Amount(CostCol(line))
    IN  [st EXCEPT
            !.current_year = year,
            !.daily_entries =
                IF cost # None
                THEN Append(@, PendingEntry(year, YearRowModel(ModelCol(line)),
                                            cost[1]))
                ELSE @]

\* The same loop without reversed(): the oldest incomplete entry is taken.
CompleteOldest(entries, date_part) ==
    LET open == {k \in 1..Len(entries) : ~entries[k].complete}
    IN  IF open = {} THEN entries
        ELSE LET k == CHOOSE k \in open : \A j \in open : k <= j
             IN  [entries EXCEPT ![k].date_part = date_part,
                                 ![k].complete = TRUE]

\* for entry in reversed(daily_entries): if not entry['complete']: ...; break
CompleteLatest(entries, date_part) ==
    LET open == {k \in 1..Len(entries) : ~entries[k].complete}
    IN  IF open = {} THEN entries
        ELSE LET k == CHOOSE k \in open : \A j \in open : j <= k
             IN  [entries EXCEPT ![k].date_part = date_part,
                                 ![k].complete = TRUE]

\* The continuation row: the latest incomplete entry gets the date, and a row
\* with a model and a cost adds a complete entry of its own.
ContinuationRow(st, line) ==
    LET date_part == DateCol(line)
        model_col == ModelCol(line)
        cost_col == CostCol(line)
        completed == CompleteLatest(st.daily_entries, date_part)
    IN  [st EXCEPT
            !.daily_entries =
                IF model_col # "" /\ HasDollar(cost_col) /\ Amount(cost_col) # None
                THEN Append(completed,
                            CompleteEntry(st.current_year, date_part,
                                          RemoveDashes(model_col),
                                          Amount(cost_col)[1]))
                ELSE completed]

\* A variant that takes a month and day for a continuation row also before
\* any year was seen.
LineStepBeforeYear(st, line) ==
    LET clean_line == CleanLine(line)
    IN  IF IsSkippedLine(clean_line)
        THEN IF CarriesTotal(clean_line)
             THEN [st EXCEPT !.total_cost = LineAmount(clean_line)]
             ELSE st
        ELSE IF Len(clean_line) < MinColumns
        THEN st
        ELSE IF YearToken(DateCol(clean_line)) # NoneStr
        THEN YearRow(st, clean_line)
        ELSE IF MonthDay(DateCol(clean_line)) # <<>>
        THEN ContinuationRow(st, clean_line)
        ELSE st

\* One iteration of "for i, line in enumerate(lines)".
LineStep(st, line) ==
    LET clean_line == CleanLine(line)
    IN  IF IsSkippedLine(clean_line)
        THEN IF CarriesTotal(clean_line)
             THEN [st EXCEPT !.total_cost = LineAmount(clean_line)]
             ELSE st
        ELSE IF Len(clean_line) < MinColumns
        THEN st
        ELSE IF YearToken(DateCol(clean_line)) # NoneStr
        THEN YearRow(st, clean_line)
        ELSE IF st.current_year # NoneStr /\ MonthDay(DateCol(clean_line)) # <<>>
        THEN ContinuationRow(st, clean_line)
        ELSE st

\* The state of the loop before its first line.
ParserStart == [current_year |-> NoneStr, daily_entries |-> <<>>, total_cost |-> None]

\* round(x, 2) of an amount in mills: to the nearest cent, a tie to the even
\* cent (the amounts of the vocabulary and their sums are exact in binary).
Round2(x) ==
    LET q == x \div 10
        r == x % 10
    IN  IF r < 5 THEN q * 10
        ELSE IF r > 5 THEN (q + 1) * 10
        ELSE IF q % 2 = 0 THEN q * 10 ELSE (q + 1) * 10

\* A variant of the fold in which a later entry of a date replaces the cost of
\* the date's group.
AddToGroupsOverwriting(groups, entry) ==
    IF ~(entry.complete /\ entry.date_part \notin {NoneStr, ""})
    THEN groups
    ELSE LET full_date == FullDate(entry.year, entry.date_part)
             at == {k \in 1..Len(groups) : groups[k].date = full_date}
         IN  IF at # {}
             THEN LET k == CHOOSE k \in at : TRUE
                  IN  [groups EXCEPT
                          ![k].cost = entry.cost,
                          ![k].models =
                              IF entry.model # "" THEN @ \cup {entry.model}
                              ELSE @]
             ELSE Append(groups,
                         [date |-> full_date, cost |-> entry.cost,
                          models |-> IF entry.model # "" THEN {entry.model}
                                     ELSE {}])

\* A variant of the fold that takes every entry, complete or not.
AddToGroupsUnfiltered(groups, entry) ==
    LET full_date == FullDate(entry.year, entry.date_part)
        at == {k \in 1..Len(groups) : groups[k].date = full_date}
    IN  IF at # {}
        THEN LET k == CHOOSE k \in at : TRUE
             IN  [groups EXCEPT
                     ![k].cost = @ + entry.cost,
                     ![k].models =
                         IF entry.model # "" THEN @ \cup {entry.model}
                         ELSE @]
        ELSE Append(groups,
                    [date |-> full_date, cost |-> entry.cost,
                     models |-> IF entry.model # "" THEN {entry.model}
                                ELSE {}])

\* One entry folded into date_groups, the dict kept as a sequence in insertion
\* order.
AddToGroups(groups, entry) ==
    IF ~(entry.complete /\ entry.date_part \notin {NoneStr, ""})
    THEN groups
    ELSE LET full_date == FullDate(entry.year, entry.date_part)
             at == {k \in 1..Len(groups) : groups[k].date = full_date}
         IN  IF at # {}
             THEN LET k == CHOOSE k \in at : TRUE
                  IN  [groups EXCEPT
                          ![k].cost = @ + entry.cost,
                          ![k].models =
                              IF entry.model # "" THEN @ \cup {entry.model}
                              ELSE @]
             ELSE Append(groups,
                         [date |-> full_date, cost |-> entry.cost,
                          models |-> IF entry.model # "" THEN {entry.model}
                                     ELSE {}])

RECURSIVE GroupEntries(_, _)
\* for entry in daily_entries: ... date_groups
GroupEntries(groups, entries) ==
    IF entries = <<>> THEN groups
    ELSE GroupEntries(AddToGroups(groups, Head(entries)), Tail(entries))

\* data['daily_entries'].append({'date', 'model', 'cost': round(cost, 2)}); the
\* joined model names are kept as the set they are joined from.
FinalEntry(group) ==
    [date |-> group.date,
     model |-> IF group.models # {} THEN group.models ELSE {"multiple models"},
     cost |-> Round2(group.cost)]

FinalEntries(groups) == [k \in 1..Len(groups) |-> FinalEntry(groups[k])]

\* Days of a month, for datetime.datetime(year, month, day) raising ValueError.
DaysInMonth(year, month) ==
    CASE month \in {4, 6, 9, 11} -> 30
      [] month = 2 -> IF year % 4 = 0 THEN 29 ELSE 28
      [] OTHER -> 31

IsValidDate(year, month, day) ==
    /\ month \in 1..12
    /\ day \in 1..DaysInMonth(year, month)

RECURSIVE DaysBeforeMonth(_, _)
DaysBeforeMonth(year, month) ==
    IF month <= 1 THEN 0
    ELSE DaysBeforeMonth(year, month - 1) + DaysInMonth(year, month - 1)

\* The day count of a valid date, from 2024-01-01 = 1 (years 2024 and 2025).
Ordinal(year, month, day) ==
    (IF year > 2024 THEN 366 ELSE 0) + DaysBeforeMonth(year, month) + day

\* datetime.datetime.min, before every date.
DateMin == 0

\* The datetime both parsing places build from a date string: <<>> when a
\* match is missing or the date is no calendar date.
ParseDate(date_str) ==
    LET year == YearToken(date_str)
        md == MonthDay(date_str)
    IN  IF year # NoneStr /\ md # <<>> /\ IsValidDate(YearNumber(year), md[1], md[2])
        THEN Some(Ordinal(YearNumber(year), md[1], md[2]))
        ELSE None

parse_date_for_sorting(date_str) ==
    IF ParseDate(date_str) # None THEN ParseDate(date_str)[1] ELSE DateMin

\* A variant without reverse=True: the element goes behind every element
\* whose key is not greater.
InsertAscending(sorted, e) ==
    LET ahead == {k \in 1..Len(sorted) :
                    parse_date_for_sorting(sorted[k].date)
                        <= parse_date_for_sorting(e.date)}
        n == Cardinality(ahead)
    IN  SubSeq(sorted, 1, n) \o <<e>> \o SubSeq(sorted, n + 1, Len(sorted))

\* One element placed by list.sort(key, reverse=True): behind every element
\* whose key is not smaller (the sort is stable).
InsertDescending(sorted, e) ==
    LET ahead == {k \in 1..Len(sorted) :
                    parse_date_for_sorting(sorted[k].date)
                        >= parse_date_for_sorting(e.date)}
        n == Cardinality(ahead)
    IN  SubSeq(sorted, 1, n) \o <<e>> \o SubSeq(sorted, n + 1, Len(sorted))

RECURSIVE SortEntries(_, _)
SortEntries(sorted, entries) ==
    IF entries = <<>> THEN sorted
    ELSE SortEntries(InsertDescending(sorted, Head(entries)), Tail(entries))

\* A variant that compares the dates and leaves the time of day out.
NotBeforeByDate(ordinal, clk, days) == ordinal >= clk.day - days

\* now - datetime.timedelta(days=n) <= entry_date, for a clock [day, tod]: tod
\* is 0 at midnight sharp and 1 later in the day; entry dates are midnights.
NotBefore(ordinal, clk, days) ==
    IF clk.tod = 0 THEN ordinal >= clk.day - days
    ELSE ordinal > clk.day - days

RECURSIVE WindowSum(_, _, _)
\* The sum one of the three accumulators ends with: days = 0 is "today".
WindowSum(entries, clk, days) ==
    IF entries = <<>> THEN 0
    ELSE LET d == ParseDate(Head(entries).date)
             counts ==
                 /\ d # None
                 /\ IF days = 0 THEN d[1] = clk.day
                    ELSE NotBefore(d[1], clk, days)
         IN  (IF counts THEN Head(entries).cost ELSE 0)
                 + WindowSum(Tail(entries), clk, days)

WeekDays == 7

MonthDays == 30

\* A variant in which the week is counted over 30 days and the month over 7.
TimeCostsSwapped(d, clk) ==
    IF d.daily_entries = <<>> THEN d
    ELSE [d EXCEPT
             !.daily_cost = Some(Round2(WindowSum(d.daily_entries, clk, 0))),
             !.weekly_cost = Some(Round2(WindowSum(d.daily_entries, clk, MonthDays))),
             !.monthly_cost = Some(Round2(WindowSum(d.daily_entries, clk, WeekDays)))]

\* "Calculate time-based costs": the three costs stay None without entries.
TimeCosts(d, clk) ==
    IF d.daily_entries = <<>> THEN d
    ELSE [d EXCEPT
             !.daily_cost = Some(Round2(WindowSum(d.daily_entries, clk, 0))),
             !.weekly_cost = Some(Round2(WindowSum(d.daily_entries, clk, WeekDays))),
             !.monthly_cost = Some(Round2(WindowSum(d.daily_entries, clk, MonthDays)))]

\* data = {'daily_entries': [], 'total_cost': None, 'last_updated': ..., ...},
\* with the total the loop over the lines has set.
NewData(total_cost, clk) ==
    [daily_entries |-> <<>>, total_cost |-> total_cost,
     last_updated |-> clk.stamp,
     weekly_cost |-> None, monthly_cost |-> None, daily_cost |-> None]

RECURSIVE RunLines(_, _)
RunLines(st, rest) ==
    IF rest = <<>> THEN st
    ELSE RunLines(LineStep(st, Head(rest)), Tail(rest))

\* The report of _parse_ccusage_output when no stage raises.
ParseReport(out, clk) ==
    LET st == RunLines(ParserStart, out)
        grouped == FinalEntries(GroupEntries(<<>>, st.daily_entries))
        sorted == SortEntries(<<>>, grouped)
    IN  TimeCosts([NewData(st.total_cost, clk) EXCEPT !.daily_entries = sorted],
                  clk)

\* The header line of the table.
HeaderLine ==
    <<"", "Date", "Models", "Input", "Output", "Cache Create", "Cache Read",
      "Total Tokens", "Cost (USD)", "">>

\* ---------------------------------------------------------- the sanitizer

\* The characters a text is made of: the bracket, a digit and the semicolon
\* of the class [0-9;], the letter m, the vertical bar (written |) and the
\* newline.
Alphabet == {"[", "1", ";", "m", "|", "\n"}

\* [0-9;]
ParamChars == {"1", ";"}

RECURSIVE ParamsEndAnyChar(_, _)
\* A variant whose parameter class is every character but the m.
ParamsEndAnyChar(chars, p) ==
    IF p <= Len(chars) /\ chars[p] # "m"
    THEN ParamsEndAnyChar(chars, p + 1)
    ELSE p

RECURSIVE ParamsEnd(_, _)
\* [0-9;]* from position p: the position behind the longest run of
\* parameter characters.
ParamsEnd(chars, p) ==
    IF p <= Len(chars) /\ chars[p] \in ParamChars
    THEN ParamsEnd(chars, p + 1)
    ELSE p

\* The length of the match of \[[0-9;]*m at position p, 0 without a match:
\* m is no parameter character, so the pattern matches exactly when the m
\* follows the longest run.
MatchLen(chars, p) ==
    IF chars[p] # "[" THEN 0
    ELSE LET q == ParamsEnd(chars, p + 1)
         IN  IF q <= Len(chars) /\ chars[q] = "m" THEN q - p + 1 ELSE 0

RECURSIVE ReSubFrom(_, _)
\* re.sub(r'\[[0-9;]*m', '', line) from position p on: the matches are found
\* from the left and do not overlap.
ReSubFrom(chars, p) ==
    IF p > Len(chars) THEN <<>>
    ELSE IF MatchLen(chars, p) > 0 THEN ReSubFrom(chars, p + MatchLen(chars, p))
    ELSE <<chars[p]>> \o ReSubFrom(chars, p + 1)

\* clean_line = re.sub(r'\[[0-9;]*m', '', line)
CleanChars(chars) == ReSubFrom(chars, 1)

RECURSIVE SplitLines(_)
\* output.split('\n')
SplitLines(chars) ==
    IF \A p \in 1..Len(chars) : chars[p] # "\n" THEN <<chars>>
    ELSE LET p == CHOOSE p \in 1..Len(chars) :
                      /\ chars[p] = "\n"
                      /\ \A q \in 1..(p - 1) : chars[q] # "\n"
         IN  <<SubSeq(chars, 1, p - 1)>>
                 \o SplitLines(SubSeq(chars, p + 1, Len(chars)))

RECURSIVE JoinLines(_)
\* The lines as one text again, a newline between two lines.
JoinLines(seq) ==
    IF Len(seq) = 1 THEN seq[1]
    ELSE seq[1] \o <<"\n">> \o JoinLines(Tail(seq))

\* The sanitizer: the text is split into lines and the colour codes are
\* removed from each line.
Sanitize(chars) ==
    JoinLines([k \in 1..Len(SplitLines(chars)) |-> CleanChars(SplitLines(chars)[k])])

\* The texts given to the sanitizer.
Texts == UNION {[1..n -> Alphabet] : n \in 0..MaxChars}

\* No text is being sanitized.
SanitizerIdle ==
    /\ text = <<>>
    /\ clean_text = <<>>
    /\ passes = 0

\* The sanitizer is applied: to the text, and then to its own result.
SanitizePass ==
    /\ passes < 2
    /\ clean_text' = Sanitize(clean_text)
    /\ passes' = passes + 1
    /\ UNCHANGED text

\* ------------------------------------------------- the frontend control

\* A JSON value as json.loads hands it to the handler: its Python type and,
\* for a number or a boolean, what it counts as in a comparison (True is 1).
JsonInt(n) == [type |-> "int", val |-> n]

JsonBool(b) == [type |-> "bool", val |-> IF b THEN 1 ELSE 0]

JsonStr == [type |-> "str", val |-> 0]

\* A key the body does not hold.
Absent == [type |-> "absent", val |-> 0]

\* The values a key of the body is drawn from.
JsonValues ==
    {Absent, JsonStr, JsonBool(TRUE), JsonInt(-1), JsonInt(59), JsonInt(60)}

TimerKeys == {"hours", "minutes", "seconds"}

\* The bodies of a request: a JSON object with some of the three keys, a
\* JSON document that is no object, and bytes that are no JSON document.
JsonObject(fields) == [kind |-> "object", fields |-> fields]

JsonArray == [kind |-> "array", fields |-> [k \in TimerKeys |-> Absent]]

Malformed == [kind |-> "malformed", fields |-> [k \in TimerKeys |-> Absent]]

Bodies ==
    {JsonObject(f) : f \in [TimerKeys -> JsonValues]} \cup {JsonArray, Malformed}

NoRequest == [kind |-> "none", fields |-> [k \in TimerKeys |-> Absent]]

\* json.loads(request.body.decode('utf-8')) followed by data.get: both
\* raise on a body that is not a JSON object.
Raises(body) == body.kind # "object"

\* data.get(key, 0)
Get(body, key) ==
    IF body.fields[key] = Absent THEN JsonInt(0) ELSE body.fields[key]

\* isinstance(value, int): bool is a subclass of int.
IsInstanceInt(value) == value.type \in {"int", "bool"}

\* json.dumps of a value inside timer_data: the value itself, a boolean
\* staying a boolean.
Dumps(value) == value

\* Minutes and seconds of 60 or more are refused.
MinutesSecondsLimit == 60

\* The width of the format specification 02d.
PadWidth == 2

\* The decimal digits of a natural number.
DigitChars == <<"0", "1", "2", "3", "4", "5", "6", "7", "8", "9">>

RECURSIVE Digits(_)
Digits(n) ==
    IF n < 10 THEN <<DigitChars[n + 1]>>
    ELSE Digits(n \div 10) \o <<DigitChars[(n % 10) + 1]>>

\* f"{value:02d}" of a value that is not negative: the digits of the number
\* it counts as, zero-padded to two characters and never cut.
Format02d(value) ==
    LET digits == Digits(value.val)
    IN  IF Len(digits) < PadWidth THEN <<"0">> \o digits ELSE digits

\* f"{hours:02d}:{minutes:02d}:{seconds:02d}"
TimeStr(hours, minutes, seconds) ==
    Format02d(hours) \o <<":">> \o Format02d(minutes) \o <<":">>
        \o Format02d(seconds)

TriggerTypes == {"timer-set", "terminal-status"}

\* create_trigger_file(trigger_type, data): the file of the type is
\* overwritten with the instant, the type and the data, if data is given
\* and is not empty (a dictionary of three keys never is).
create_trigger_file(files, trigger_type, t, trigger_data) ==
    [files EXCEPT ![trigger_type] =
        Some([stamp |-> t, type |-> trigger_type,
              data |-> trigger_data])]

\* The responses of timer_set.
BadRequest(error) == [status |-> 400, error |-> error]

ServerError(error) == [status |-> 500, error |-> error]

TimerIsSet(time_str, t) ==
    [status |-> 200, success |-> TRUE, action |-> "set", time |-> time_str,
     message |-> <<"Timer set to ">> \o time_str, timestamp |-> t]

NoControlResponse == [status |-> 0]

\* The check of the types.
NotAllIntegers(hours, minutes, seconds) ==
    \/ ~IsInstanceInt(hours)
    \/ ~IsInstanceInt(minutes)
    \/ ~IsInstanceInt(seconds)

\* The check of the signs.
AnyNegative(hours, minutes, seconds) ==
    hours.val < 0 \/ minutes.val < 0 \/ seconds.val < 0

\* The check of the ranges.
OutOfRange(minutes, seconds) ==
    minutes.val >= MinutesSecondsLimit \/ seconds.val >= MinutesSecondsLimit

\* timer_set: the whole handler, from the body to the response and the
\* trigger file.
TimerSet(body) ==
    /\ request' = body
    /\ IF Raises(body)
       THEN /\ response' = ServerError("Failed to set timer")
            /\ UNCHANGED trigger_files
       ELSE LET hours == Get(body, "hours")
                minutes == Get(body, "minutes")
                seconds == Get(body, "seconds")
            IN  IF NotAllIntegers(hours, minutes, seconds)
                THEN /\ response' = BadRequest(
                            "Hours, minutes, and seconds must be integers")
                     /\ UNCHANGED trigger_files
                ELSE IF AnyNegative(hours, minutes, seconds)
                THEN /\ response' = BadRequest(
                            "Time values cannot be negative")
                     /\ UNCHANGED trigger_files
                ELSE IF OutOfRange(minutes, seconds)
                THEN /\ response' = BadRequest(
                            "Minutes and seconds must be less than 60")
                     /\ UNCHANGED trigger_files
                ELSE /\ trigger_files' =
                            create_trigger_file(trigger_files, "timer-set", now,
                                Some([hours |-> Dumps(hours),
                                      minutes |-> Dumps(minutes),
                                      seconds |-> Dumps(seconds)]))
                     /\ response' =
                            TimerIsSet(TimeStr(hours, minutes, seconds), now)

\* No request was made yet and no trigger file exists.
ControlIdle ==
    /\ request = NoRequest
    /\ response = NoControlResponse
    /\ trigger_files = [type \in TriggerTypes |-> None]

\* ------------------------------------------------- the terminal status

\* One terminal as the frontend describes it: its name, whether a command
\* runs in it, and the command, None when there is none.
TerminalState(name, running, current_command) ==
    [name |-> name, running |-> running, current_command |-> current_command]

\* The terminals terminal_status reports when the frontend does not answer.
DefaultTerminals ==
    [t \in {"1", "2", "3", "4"} |->
        TerminalState(<<"Terminal", t>>, FALSE, None)]

\* Two terminals, a command running in the first.
BusyTerminals ==
    [t \in {"1", "2"} |->
        TerminalState(<<"Terminal", t>>, t = "1",
                      IF t = "1" THEN Some("npm run dev") ELSE None)]

\* The terminal maps a file may hold.
TerminalMaps == {DefaultTerminals, BusyTerminals}

\* The terminal ids a file may name as the active one.
TerminalIds == {1, 2}

\* The contents of /tmp/claude-code-terminal-status.
StatusFiles ==
    [active_terminal : TerminalIds, terminals : TerminalMaps]

\* The contents of /tmp/claude-code-terminal-status-response as json.load
\* meets them: a JSON object that may hold activeTerminal and terminals, a
\* JSON document that is no object, and bytes that are no JSON document.
FrontendObject(activeTerminal, terminals) ==
    [kind |-> "object", activeTerminal |-> activeTerminal,
     terminals |-> terminals]

FrontendResponses ==
    {FrontendObject(a, t) :
        a \in {None} \cup {Some(n) : n \in TerminalIds},
        t \in {None} \cup {Some(m) : m \in TerminalMaps}}
    \cup {[kind |-> "array", activeTerminal |-> None, terminals |-> None],
          [kind |-> "malformed", activeTerminal |-> None, terminals |-> None]}

\* json.load(f) raises on bytes that are no JSON document.
LoadRaises(content) == content.kind = "malformed"

\* frontend_data.get raises on a JSON document that is no object.
GetRaises(content) == content.kind = "array"

\* Either exception is caught inside the loop by a handler that calls
\* logger.warning; the module defines no logger, so the NameError leaves the
\* loop for the outer except clause.
ReadRaises(content) == LoadRaises(content) \/ GetRaises(content)

\* frontend_data.get('activeTerminal', 1)
DefaultActiveTerminal == 1

ActiveTerminalOf(content) ==
    IF content.activeTerminal = None THEN DefaultActiveTerminal
    ELSE content.activeTerminal[1]

\* frontend_data.get('terminals', {})
TerminalsOf(content) ==
    IF content.terminals = None THEN <<>> ELSE content.terminals[1]

\* The wait for the frontend: while wait_time < 2 in steps of 0.1 s, counted
\* here in tenths of a second.  The twenty additions of 0.1 give
\* 2.0000000000000004, the nineteen before them stay below 2, so the file is
\* looked for twenty times.
WaitLimit == 20

\* The seconds that have passed during a wait.
Elapsed(tenths) == tenths \div 10

\* The responses of terminal_status.
TerminalsAre(active_terminal, terminals, t) ==
    [status |-> 200, success |-> TRUE, active_terminal |-> active_terminal,
     terminals |-> terminals, timestamp |-> t]

\* The status file is written, as the test of the endpoint does.
WriteStatusFile(content) ==
    /\ status_file' = Some(content)
    /\ UNCHANGED <<response_file, wait_time, waiting>>
    /\ UNCHANGED controlVars

\* The status file is removed.
RemoveStatusFile ==
    /\ status_file # None
    /\ status_file' = None
    /\ UNCHANGED <<response_file, wait_time, waiting>>
    /\ UNCHANGED controlVars

\* terminal_status up to its loop: an old response file is removed and the
\* trigger file that asks the frontend for its status is written.
TerminalStatusBegin ==
    /\ ~waiting
    /\ response_file' = None
    /\ trigger_files' =
          [trigger_files EXCEPT !["terminal-status"] =
              Some([request |-> "terminal_status", timestamp |-> now])]
    /\ wait_time' = 0
    /\ waiting' = TRUE
    /\ response' = NoControlResponse
    /\ UNCHANGED <<request, status_file>>

\* The frontend sees the trigger file and writes its response file.
FrontendResponds(content) ==
    /\ trigger_files["terminal-status"] # None
    /\ response_file' = Some(content)
    /\ UNCHANGED <<status_file, wait_time, waiting>>
    /\ UNCHANGED controlVars

\* One turn of the loop: a response file that reads as an object ends the
\* request with the frontend's data, the trigger file being removed once the
\* file is loaded; one that does not ends it with status 500; and without a
\* response file the handler sleeps a tenth of a second.
Poll ==
    /\ waiting
    /\ wait_time < WaitLimit
    /\ IF response_file = None
       THEN /\ wait_time' = wait_time + 1
            /\ UNCHANGED <<waiting, response, trigger_files>>
       ELSE IF ReadRaises(response_file[1])
       THEN /\ trigger_files' =
                  IF LoadRaises(response_file[1]) THEN trigger_files
                  ELSE [trigger_files EXCEPT !["terminal-status"] = None]
            /\ response' = ServerError("Failed to get terminal status")
            /\ waiting' = FALSE
            /\ UNCHANGED wait_time
       ELSE /\ trigger_files' =
                  [trigger_files EXCEPT !["terminal-status"] = None]
            /\ response' =
                  TerminalsAre(ActiveTerminalOf(response_file[1]),
                               TerminalsOf(response_file[1]),
                               now + Elapsed(wait_time))
            /\ waiting' = FALSE
            /\ UNCHANGED wait_time
    /\ UNCHANGED <<request, status_file, response_file>>

\* The loop is over without a response: the trigger file is removed and the
\* default terminals are reported.
GiveUp ==
    /\ waiting
    /\ wait_time >= WaitLimit
    /\ trigger_files' = [trigger_files EXCEPT !["terminal-status"] = None]
    /\ response' =
          TerminalsAre(DefaultActiveTerminal, DefaultTerminals,
                       now + Elapsed(wait_time))
    /\ waiting' = FALSE
    /\ UNCHANGED <<request, status_file, response_file, wait_time>>

\* No status file, no response file, no request under way.
TerminalIdle ==
    /\ status_file = None
    /\ response_file = None
    /\ wait_time = 0
    /\ waiting = FALSE

\* ------------------------------------------------------------ the service

Requests == 1..NumRequests

\* request.data.get('session_id', 'default')
SessionIds == {"default"}

\* What the tool may print on a successful run.
Stdouts ==
    { <<HeaderLine>>,
      <<Row("2025", "sonnet-4", "$12.50"), Row("07-26", "", ""),
        <<"Total $42.00">>>> }

\* What the tool may print on its error stream when it fails.
Stderrs == {"auth error"}

\* The clock a parse started at instant t reads: the afternoon of 2025-07-26.
ClockAt(t) == [day |-> Ordinal(2025, 7, 26), tod |-> 1, stamp |-> t]

NoProcess == [state |-> "none"]

NoResponse == [pending |-> TRUE]

\* The dict the parser returns from its "except Exception" (every output of
\* the model is shorter than the 500 characters kept).
ParseError(out) == [error |-> "Failed to parse output", raw_output |-> out]

\* PricingCache.objects.filter(cache_key=key, expires_at__gt=t): the records a
\* lookup at instant t may return.
CacheGetInclusive(c, key, t) ==
    {rec \in c : rec.cache_key = key /\ rec.expires_at >= t}

CacheGet(c, key, t) ==
    {rec \in c : rec.cache_key = key /\ rec.expires_at > t}

\* PricingCache.is_expired at instant t: timezone.now() > self.expires_at
is_expired(rec, t) == t > rec.expires_at

\* A variant that replaces the data of an existing record and keeps its expiry.
CacheSetKeepingExpiry(c, key, d, t) ==
    IF \E rec \in c : rec.cache_key = key
    THEN {IF rec.cache_key = key THEN [rec EXCEPT !.data = d] ELSE rec : rec \in c}
    ELSE c \cup {[cache_key |-> key, data |-> d, expires_at |-> t + TTLSec,
                   created_at |-> t]}

\* PricingCache.objects.update_or_create(cache_key=key, defaults={data,
\* expires_at: now + 5 minutes}); created_at is auto_now_add.
CacheSet(c, key, d, t) ==
    IF \E rec \in c : rec.cache_key = key
    THEN {IF rec.cache_key = key
          THEN [rec EXCEPT !.data = d, !.expires_at = t + TTLSec]
          ELSE rec : rec \in c}
    ELSE c \cup {[cache_key |-> key, data |-> d, expires_at |-> t + TTLSec,
                   created_at |-> t]}

\* The response of a cache hit, of either endpoint.
CachedResponse(rec) ==
    [success |-> TRUE, data |-> rec.data, cached |-> TRUE,
     timestamp |-> rec.created_at, status |-> 200]

\* A variant of the hit that also renews the record it serves.
ServeCachedRenewing(r) ==
    /\ pc[r] = "Idle"
    /\ CacheGet(cache, CacheKey, now) # {}
    /\ \E rec \in CacheGet(cache, CacheKey, now) :
          /\ resp' = [resp EXCEPT ![r] = CachedResponse(rec)]
          /\ cache' = CacheSet(cache, CacheKey, rec.data, now)
    /\ pc' = [pc EXCEPT ![r] = "Cached"]
    /\ UNCHANGED <<now, history, proc, lookup, invocations, stores>>

\* execute_ccusage, cache hit: the record is returned at once.
ServeCached(r) ==
    /\ pc[r] = "Idle"
    /\ CacheGet(cache, CacheKey, now) # {}
    /\ \E rec \in CacheGet(cache, CacheKey, now) :
          resp' = [resp EXCEPT ![r] = CachedResponse(rec)]
    /\ pc' = [pc EXCEPT ![r] = "Cached"]
    /\ UNCHANGED <<now, cache, history, proc, lookup, invocations, stores>>

\* execute_ccusage, cache miss: subprocess.run(['npx', 'ccusage'], timeout=30)
\* starts the tool.
StartSubprocess(r) ==
    /\ pc[r] = "Idle"
    /\ CacheGet(cache, CacheKey, now) = {}
    /\ invocations < MaxRuns
    /\ now + TimeoutSec <= MaxTime
    /\ proc' = [proc EXCEPT ![r] = [state |-> "running", started |-> now,
                                     deadline |-> now + TimeoutSec]]
    /\ invocations' = invocations + 1
    /\ pc' = [pc EXCEPT ![r] = "Invoking"]
    /\ UNCHANGED <<now, cache, history, resp, lookup, stores>>

\* execute_ccusage, cache miss, and subprocess.run cannot start the tool: the
\* exception lands in "except Exception".
SpawnFails(r) ==
    /\ pc[r] = "Idle"
    /\ CacheGet(cache, CacheKey, now) = {}
    /\ resp' = [resp EXCEPT ![r] = [success |-> FALSE,
                                     error |-> "No such file or directory",
                                     status |-> 500]]
    /\ pc' = [pc EXCEPT ![r] = "Failed"]
    /\ UNCHANGED <<now, cache, history, proc, lookup, invocations, stores>>

\* A variant of the failure path that also drops the key's record.
SubprocessFailsAndInvalidates(r) ==
    /\ pc[r] = "Invoking"
    /\ proc[r].state = "running"
    /\ \E stderr \in Stderrs :
          /\ proc' = [proc EXCEPT ![r] = [state |-> "exited", returncode |-> 1,
                                           stderr |-> stderr]]
          /\ resp' = [resp EXCEPT ![r] =
                         [success |-> FALSE,
                          error |-> "Failed to execute ccusage command",
                          stderr |-> stderr, status |-> 500]]
    /\ cache' = {rec \in cache : rec.cache_key # CacheKey}
    /\ pc' = [pc EXCEPT ![r] = "Failed"]
    /\ UNCHANGED <<now, history, lookup, invocations, stores>>

\* The tool exits with a non-zero status: result.returncode != 0.
SubprocessFails(r) ==
    /\ pc[r] = "Invoking"
    /\ proc[r].state = "running"
    /\ \E stderr \in Stderrs :
          /\ proc' = [proc EXCEPT ![r] = [state |-> "exited", returncode |-> 1,
                                           stderr |-> stderr]]
          /\ resp' = [resp EXCEPT ![r] =
                         [success |-> FALSE,
                          error |-> "Failed to execute ccusage command",
                          stderr |-> stderr, status |-> 500]]
    /\ pc' = [pc EXCEPT ![r] = "Failed"]
    /\ UNCHANGED <<now, cache, history, lookup, invocations, stores>>

\* The tool exits with status 0: raw_output = result.stdout.
SubprocessSucceeds(r) ==
    /\ pc[r] = "Invoking"
    /\ proc[r].state = "running"
    /\ \E stdout \in Stdouts :
          proc' = [proc EXCEPT ![r] = [state |-> "exited", returncode |-> 0,
                                       stdout |-> stdout]]
    /\ pc' = [pc EXCEPT ![r] = "Parsing"]
    /\ UNCHANGED <<now, cache, history, resp, lookup, invocations, stores>>

\* A variant of the timeout that gives up the wait and leaves the tool running.
TimeoutAbandons(r) ==
    /\ pc[r] = "Invoking"
    /\ proc[r].state = "running"
    /\ now >= proc[r].deadline
    /\ resp' = [resp EXCEPT ![r] = [success |-> FALSE,
                                     error |-> "Command execution timed out",
                                     status |-> 408]]
    /\ pc' = [pc EXCEPT ![r] = "Failed"]
    /\ UNCHANGED <<now, cache, history, proc, lookup, invocations, stores>>

\* The 30 seconds are over: subprocess.run kills the tool and raises
\* TimeoutExpired, which the handler turns into the 408 response.
Timeout(r) ==
    /\ pc[r] = "Invoking"
    /\ proc[r].state = "running"
    /\ now >= proc[r].deadline
    /\ proc' = [proc EXCEPT ![r].state = "killed"]
    /\ resp' = [resp EXCEPT ![r] = [success |-> FALSE,
                                     error |-> "Command execution timed out",
                                     status |-> 408]]
    /\ pc' = [pc EXCEPT ![r] = "Failed"]
    /\ UNCHANGED <<now, cache, history, lookup, invocations, stores>>

\* What _parse_ccusage_output returns for each output of the tool, parsed at
\* each instant: the parser's results, tabulated.
ParsedOutputs ==
    [out \in Stdouts |-> [t \in 0..MaxTime |-> ParseReport(out, ClockAt(t))]]

\* parsed_data = self._parse_ccusage_output(raw_output): the report, or the
\* error dict when a stage raised.
ParsedData(out, raised, t) ==
    IF raised THEN ParseError(out) ELSE ParsedOutputs[out][t]

\* parsed_data.get('total_cost')
TotalCostOf(d) == IF "total_cost" \in DOMAIN d THEN d.total_cost ELSE None

\* PricingData.objects.create(session_id, raw_output, parsed_data, total_cost)
PricingRecord(session_id, out, d, t) ==
    [session_id |-> session_id, raw_output |-> out, parsed_data |-> d,
     total_cost |-> TotalCostOf(d), execution_timestamp |-> t]

\* The rest of a successful run: parse, store the run, cache the result and
\* return it with cached: False.
FinishParsing(r) ==
    /\ pc[r] = "Parsing"
    /\ \E raised \in BOOLEAN, session_id \in SessionIds :
          LET raw_output == proc[r].stdout
              parsed_data == ParsedData(raw_output, raised, now)
              pricing_record == PricingRecord(session_id, raw_output, parsed_data, now)
          IN  /\ history' = Append(history, pricing_record)
              /\ cache' = CacheSet(cache, CacheKey, parsed_data, now)
              /\ stores' = Append(stores, [data |-> parsed_data, at |-> now])
              /\ resp' = [resp EXCEPT ![r] =
                             [success |-> TRUE, data |-> parsed_data,
                              cached |-> FALSE,
                              timestamp |-> pricing_record.execution_timestamp,
                              status |-> 200]]
    /\ pc' = [pc EXCEPT ![r] = "Cached"]
    /\ UNCHANGED <<now, proc, lookup, invocations>>

\* The response leaves the handler, which is free for the next request.
Return(r) ==
    /\ pc[r] \in {"Cached", "Failed"}
    /\ pc' = [pc EXCEPT ![r] = "Idle"]
    /\ resp' = [resp EXCEPT ![r] = NoResponse]
    /\ proc' = [proc EXCEPT ![r] = NoProcess]
    /\ UNCHANGED <<now, cache, history, lookup, invocations, stores>>

\* get_cached_data: the record if it has not expired, else "No cached data
\* available".  The field at, the instant of the lookup, is kept beside the
\* response and is not part of it.
GetCachedData ==
    /\ lookup = NoResponse
    /\ IF CacheGet(cache, CacheKey, now) # {}
       THEN \E rec \in CacheGet(cache, CacheKey, now) :
               lookup' = [success |-> TRUE, data |-> rec.data, cached |-> TRUE,
                          timestamp |-> rec.created_at, at |-> now]
       ELSE lookup' = [success |-> FALSE,
                       message |-> "No cached data available", at |-> now]
    /\ UNCHANGED <<now, cache, history, pc, proc, resp, invocations, stores>>

\* The response of get_cached_data leaves.
LookupReturn ==
    /\ lookup # NoResponse
    /\ lookup' = NoResponse
    /\ UNCHANGED <<now, cache, history, pc, proc, resp, invocations, stores>>

\* clear_cache: PricingCache.objects.all().delete()
ClearCache ==
    /\ cache # {}
    /\ cache' = {}
    /\ stores' = <<>>
    /\ UNCHANGED <<now, history, pc, proc, resp, lookup, invocations>>

\* The instants at which something is due: a subprocess timeout, an expiry.
DueInstants ==
    {proc[r].deadline : r \in {q \in Requests : proc[q].state = "running"}}
        \cup {rec.expires_at : rec \in cache}

\* Time passes: by TickSec at most, and not past an instant at which
\* something is due.  A subprocess.run that has reached its timeout ends
\* before the clock moves on, and get_cached_data, one query and its
\* response, takes no time.
Tick ==
    /\ now < MaxTime
    /\ \A r \in Requests : proc[r].state = "running" => now < proc[r].deadline
    /\ lookup = NoResponse
    /\ LET stops == {t \in DueInstants \cup {now + TickSec, MaxTime} : t > now}
       IN  now' = CHOOSE t \in stops : \A u \in stops : t <= u
    /\ UNCHANGED <<cache, history, pc, proc, resp, lookup, invocations, stores>>

\* The service at rest, before any request.
ServiceInit ==
    /\ now = 0
    /\ cache = {}
    /\ history = <<>>
    /\ pc = [r \in Requests |-> "Idle"]
    /\ proc = [r \in Requests |-> NoProcess]
    /\ resp = [r \in Requests |-> NoResponse]
    /\ lookup = NoResponse
    /\ invocations = 0
    /\ stores = <<>>

\* An action of the service leaves the parser's run, the sanitizer and the
\* frontend control endpoints alone.
Service(A) ==
    A /\ UNCHANGED <<parserVars, sanitizerVars, controlVars, terminalVars>>

Next ==
    \/ \E r \in Requests : Service(ServeCached(r))
    \/ \E r \in Requests : Service(StartSubprocess(r))
    \/ \E r \in Requests : Service(SpawnFails(r))
    \/ \E r \in Requests : Service(SubprocessFails(r))
    \/ \E r \in Requests : Service(SubprocessSucceeds(r))
    \/ \E r \in Requests : Service(Timeout(r))
    \/ \E r \in Requests : Service(FinishParsing(r))
    \/ \E r \in Requests : Service(Return(r))
    \/ Service(GetCachedData)
    \/ Service(LookupReturn)
    \/ Service(ClearCache)
    \/ Service(Tick)

Init ==
    /\ ServiceInit
    /\ SanitizerIdle
    /\ ControlIdle
    /\ TerminalIdle
    /\ output = <<>>
    /\ clock = ClockAt(0)
    /\ i = 1
    /\ current_year = ParserStart.current_year
    /\ daily_entries = ParserStart.daily_entries
    /\ data = NewData(ParserStart.total_cost, clock)
    /\ phase = "idle"

Spec == Init /\ [][Next]_vars

\* The tool is killed when its time is over, a run that has its output goes
\* on to parse it, responses leave, and the clock, which stands still only
\* while a timeout or the response to a lookup is due, moves on again and
\* again.
Fairness ==
    /\ \A r \in Requests : WF_vars(Service(Timeout(r)))
    /\ \A r \in Requests : WF_vars(Service(FinishParsing(r)))
    /\ \A r \in Requests : WF_vars(Service(Return(r)))
    /\ WF_vars(Service(LookupReturn))
    /\ SF_vars(Service(Tick))

FairSpec == Spec /\ Fairness

\* ------------------------------------------------- the parser, step by step

\* The lines an input is made of.
LineChoices ==
    { <<"+--+--+">>,
      HeaderLine,
      Row("2025", "sonnet-4", "$12.50"),
      Row("[36m2025[39m", "opus-4", "[1m$3.00[0m"),
      Row("2024", "", "$0.125"),
      Row("2025", "-", "$3.00"),
      Row("07-26", "", ""),
      Row("07-26", "opus-4", "$3.00"),
      Row("07-20", "", ""),
      Row("06-20", "", ""),
      Row("13-45", "", ""),
      <<"", "2025", "sonnet-4", "$12.50", "">>,
      <<"", "2025", "sonnet-4", "", "", "", "", "$12.50">>,
      <<"Total $42.00">>,
      <<"Total $7.10">>,
      Row("Total", "", "$7.10"),
      Row("Date", "", "$3.00"),
      Row("", "opus-4", "$3.00") }

\* The inputs: output.split('\n') has at least one line.
Inputs == UNION {[1..n -> LineChoices] : n \in 1..MaxLines}

\* The instants a run may read: the afternoon of 2025-07-26, midnight sharp
\* and the afternoon of 2025-07-27, and midnight sharp of 2025-07-20.
ParseClocks ==
    { [day |-> Ordinal(2025, 7, 26), tod |-> 1, stamp |-> 0],
      [day |-> Ordinal(2025, 7, 27), tod |-> 0, stamp |-> 0],
      [day |-> Ordinal(2025, 7, 27), tod |-> 1, stamp |-> 0],
      [day |-> Ordinal(2025, 7, 20), tod |-> 0, stamp |-> 0] }

\* The loop's state, as LineStep takes it.
LoopState ==
    [current_year |-> current_year, daily_entries |-> daily_entries,
     total_cost |-> data.total_cost]

\* One line of the loop.
ParseLine ==
    /\ phase = "lines"
    /\ i <= Len(output)
    /\ LET st == LineStep(LoopState, output[i])
       IN  /\ current_year' = st.current_year
           /\ daily_entries' = st.daily_entries
           /\ data' = [data EXCEPT !.total_cost = st.total_cost]
    /\ i' = i + 1
    /\ UNCHANGED <<output, phase, clock>>

\* "Group completed entries by date" and "Convert to final format".
GroupStage ==
    /\ phase = "lines"
    /\ i > Len(output)
    /\ data' = [data EXCEPT
                   !.daily_entries = FinalEntries(GroupEntries(<<>>, daily_entries))]
    /\ phase' = "sort"
    /\ UNCHANGED <<output, i, current_year, daily_entries, clock>>

\* data['daily_entries'].sort(key=..., reverse=True)
SortStage ==
    /\ phase = "sort"
    /\ data' = [data EXCEPT !.daily_entries = SortEntries(<<>>, @)]
    /\ phase' = "costs"
    /\ UNCHANGED <<output, i, current_year, daily_entries, clock>>

\* "Calculate time-based costs" and return data.
CostStage ==
    /\ phase = "costs"
    /\ data' = TimeCosts(data, clock)
    /\ phase' = "done"
    /\ UNCHANGED <<output, i, current_year, daily_entries, clock>>

ParseInit ==
    /\ ServiceInit
    /\ SanitizerIdle
    /\ ControlIdle
    /\ TerminalIdle
    /\ output \in Inputs
    /\ clock \in ParseClocks
    /\ i = 1
    /\ current_year = ParserStart.current_year
    /\ daily_entries = ParserStart.daily_entries
    /\ data = NewData(ParserStart.total_cost, clock)
    /\ phase = "lines"

ParseNext ==
    /\ ParseLine \/ GroupStage \/ SortStage \/ CostStage
    /\ UNCHANGED <<serviceVars, sanitizerVars, controlVars, terminalVars>>

ParseSpec == ParseInit /\ [][ParseNext]_vars

\* ---------------------------------------------- the sanitizer, on its own

SanitizeInit ==
    /\ ServiceInit
    /\ ControlIdle
    /\ TerminalIdle
    /\ output = <<>>
    /\ clock = ClockAt(0)
    /\ i = 1
    /\ current_year = ParserStart.current_year
    /\ daily_entries = ParserStart.daily_entries
    /\ data = NewData(ParserStart.total_cost, clock)
    /\ phase = "idle"
    /\ text \in Texts
    /\ clean_text = text
    /\ passes = 0

SanitizeNext ==
    /\ SanitizePass
    /\ UNCHANGED <<parserVars, serviceVars, controlVars, terminalVars>>

SanitizeSpec == SanitizeInit /\ [][SanitizeNext]_vars

\* --------------------------------------- the frontend control, on its own

ControlInit ==
    /\ ServiceInit
    /\ SanitizerIdle
    /\ ControlIdle
    /\ TerminalIdle
    /\ output = <<>>
    /\ clock = ClockAt(0)
    /\ i = 1
    /\ current_year = ParserStart.current_year
    /\ daily_entries = ParserStart.daily_entries
    /\ data = NewData(ParserStart.total_cost, clock)
    /\ phase = "idle"

ControlNext ==
    /\ \E body \in Bodies : TimerSet(body)
    /\ UNCHANGED <<parserVars, serviceVars, sanitizerVars, terminalVars>>

ControlSpec == ControlInit /\ [][ControlNext]_vars

\* ---------------------------------------- the terminal status, on its own

TerminalInit == ControlInit

TerminalNext ==
    /\ \/ \E content \in StatusFiles : WriteStatusFile(content)
       \/ RemoveStatusFile
       \/ TerminalStatusBegin
       \/ \E content \in FrontendResponses : FrontendResponds(content)
       \/ Poll
       \/ GiveUp
    /\ UNCHANGED <<parserVars, serviceVars, sanitizerVars>>

TerminalSpec == TerminalInit /\ [][TerminalNext]_vars

\* ------------------------------------------------------ claims: the parser

RECURSIVE SumCosts(_)
SumCosts(entries) ==
    IF entries = <<>> THEN 0 ELSE Head(entries).cost + SumCosts(Tail(entries))

\* A line carrying both the token 'Total' and a '$' amount.
IsTotalLine(line) ==
    /\ LineHasTotal(CleanLine(line))
    /\ LineAmount(CleanLine(line)) # None

\* A free-text line (no vertical bar) carrying 'Total' and a '$' amount.
IsFreeTextTotalLine(line) == Len(line) = 1 /\ IsTotalLine(line)

TotalLines == {k \in 1..Len(output) : IsTotalLine(output[k])}

\* C1: for an input without an explicit total line, the report's total_cost is
\* the sum of the costs of the entries of daily_entries, rounded to 2 decimals.
\* Stated for the reports that have entries, where the sum is of something.
C1_TotalIsSumOfEntries ==
    (phase = "done" /\ TotalLines = {} /\ data.daily_entries # <<>>)
        => data.total_cost = Some(Round2(SumCosts(data.daily_entries)))

\* C2, as claimed: a free-text line with 'Total' and a '$' amount N makes the
\* report's total_cost equal N, wherever the line stands and whatever lines
\* precede or follow it.
C2_FreeTextTotalAlwaysWins ==
    phase = "done" =>
        \A k \in 1..Len(output) :
            IsFreeTextTotalLine(output[k])
                => data.total_cost = LineAmount(CleanLine(output[k]))

\* C2, amended: the report's total_cost is the amount of the last line that
\* carries 'Total' and a '$' amount, free text or table line, and None when
\* there is none; so a free-text total line with amount N gives N when no
\* later line carries a total.
C2_LastTotalLineWins ==
    phase = "done" =>
        IF TotalLines = {} THEN data.total_cost = None
        ELSE LET last == CHOOSE k \in TotalLines : \A j \in TotalLines : j <= k
             IN  data.total_cost = LineAmount(CleanLine(output[last]))

\* A finished run whose free-text total line comes first, followed by rows
\* whose entries sum to another amount, and whose total is the line's.
C2_Witness ==
    /\ phase = "done"
    /\ Len(output) > 1
    /\ IsFreeTextTotalLine(output[1])
    /\ \A k \in 2..Len(output) : ~IsTotalLine(output[k])
    /\ data.daily_entries # <<>>
    /\ Some(SumCosts(data.daily_entries)) # LineAmount(CleanLine(output[1]))
    /\ data.total_cost = LineAmount(CleanLine(output[1]))

\* A line the loop reads columns from: a table line without a header token
\* and with the columns of a row.
IsTableRow(line) ==
    /\ ~IsSkippedLine(CleanLine(line))
    /\ Len(CleanLine(line)) >= MinColumns

\* A year row: its date column holds a year.
IsYearRow(line) ==
    /\ IsTableRow(line)
    /\ YearToken(DateCol(CleanLine(line))) # NoneStr

\* A continuation row: its date column holds a month and day and no year.
IsDateRow(line) ==
    /\ IsTableRow(line)
    /\ YearToken(DateCol(CleanLine(line))) = NoneStr
    /\ MonthDay(DateCol(CleanLine(line))) # <<>>

\* The input is a two-line record at lines k and k + 1, a year row with a
\* model and a cost and then a continuation row, and no other table row.
IsRecordAt(k) ==
    /\ k + 1 <= Len(output)
    /\ IsYearRow(output[k])
    /\ ModelCol(CleanLine(output[k])) # ""
    /\ Amount(CostCol(CleanLine(output[k]))) # None
    /\ IsDateRow(output[k + 1])
    /\ \A j \in 1..Len(output) : j \notin {k, k + 1} => ~IsTableRow(output[j])

\* C11: a year row with year Y, model M and cost C, followed by a
\* continuation row with date D and neither model nor cost, yields exactly one
\* entry: its date is "Y D", its cost is C and its model is M as the table
\* cell holds it.
C11_TwoLineRecordKeepsModelName ==
    phase = "done" =>
        \A k \in 1..Len(output) :
            (/\ IsRecordAt(k)
             /\ ModelCol(CleanLine(output[k + 1])) = ""
             /\ CostCol(CleanLine(output[k + 1])) = "")
                => data.daily_entries =
                       << [date |-> FullDate(YearToken(DateCol(CleanLine(output[k]))),
                                             DateCol(CleanLine(output[k + 1]))),
                           model |-> {ModelCol(CleanLine(output[k]))},
                           cost |-> Amount(CostCol(CleanLine(output[k])))[1]] >>

\* C12: a continuation row that also carries a model and a '$' cost completes
\* the pending entry and appends a second entry, complete at once, with the
\* current year and the row's date; after grouping the date has one merged
\* entry whose cost is the sum of both costs (rounded to the cent) and whose
\* models contain both names, as the cells hold them.
C12_SecondModelMergedUnderBothNames ==
    /\ (phase = "lines" /\ i > 1 /\ i - 1 <= Len(output)) =>
          \A k \in {i - 2} \cap (1..Len(output)) :
              (/\ IsRecordAt(k)
               /\ ModelCol(CleanLine(output[k + 1])) # ""
               /\ Amount(CostCol(CleanLine(output[k + 1]))) # None)
                  => /\ Len(daily_entries) = 2
                     /\ \A n \in 1..2 :
                           /\ daily_entries[n].complete
                           /\ daily_entries[n].year = current_year
                           /\ daily_entries[n].date_part
                                  = DateCol(CleanLine(output[k + 1]))
    /\ phase = "done" =>
          \A k \in 1..Len(output) :
              (/\ IsRecordAt(k)
               /\ ModelCol(CleanLine(output[k + 1])) # ""
               /\ Amount(CostCol(CleanLine(output[k + 1]))) # None)
                  => /\ Len(data.daily_entries) = 1
                     /\ data.daily_entries[1].date
                            = FullDate(YearToken(DateCol(CleanLine(output[k]))),
                                       DateCol(CleanLine(output[k + 1])))
                     /\ data.daily_entries[1].cost
                            = Round2(Amount(CostCol(CleanLine(output[k])))[1]
                                     + Amount(CostCol(CleanLine(output[k + 1])))[1])
                     /\ {ModelCol(CleanLine(output[k])),
                         ModelCol(CleanLine(output[k + 1]))}
                            \subseteq data.daily_entries[1].model

\* The complete pending entries the loop has left, by position.
CompletePending == {n \in 1..Len(daily_entries) : daily_entries[n].complete}

\* The '{year} {date_part}' key of pending entry n.
KeyOf(n) == FullDate(daily_entries[n].year, daily_entries[n].date_part)

GroupKeys == {KeyOf(n) : n \in CompletePending}

RECURSIVE SumPending(_)
\* The sum of the costs of the pending entries at the positions given.
SumPending(positions) ==
    IF positions = {} THEN 0
    ELSE LET n == CHOOSE n \in positions : TRUE
         IN  daily_entries[n].cost + SumPending(positions \ {n})

\* The sum of the costs of the complete pending entries with the key.
KeyCost(key) == SumPending({n \in CompletePending : KeyOf(n) = key})

\* The model names of the complete pending entries with the key.
KeyModels(key) == {daily_entries[n].model : n \in {m \in CompletePending : KeyOf(m) = key}}

\* The parser is past its grouping stage.
Grouped == phase \in {"sort", "costs", "done"}

\* C13, as claimed: after grouping daily_entries holds exactly one entry per
\* distinct key among the complete pending entries; its cost is the sum of
\* their costs and its models are the set of their model names.
C13_OneEntryPerKeyWithPlainSum ==
    Grouped =>
        /\ Len(data.daily_entries) = Cardinality(GroupKeys)
        /\ \A key \in GroupKeys :
              \E n \in 1..Len(data.daily_entries) :
                  /\ data.daily_entries[n].date = key
                  /\ data.daily_entries[n].cost = KeyCost(key)
                  /\ data.daily_entries[n].model = KeyModels(key)

\* C13, amended: after grouping daily_entries holds exactly one entry per
\* distinct key among the complete pending entries; its cost is the sum of
\* their costs rounded to 2 decimals, and its models are the set of their
\* non-empty model names, 'multiple models' standing for the empty set.
C13_OneEntryPerKeyWithRoundedSum ==
    Grouped =>
        /\ Len(data.daily_entries) = Cardinality(GroupKeys)
        /\ \A key \in GroupKeys :
              \E n \in 1..Len(data.daily_entries) :
                  /\ data.daily_entries[n].date = key
                  /\ data.daily_entries[n].cost = Round2(KeyCost(key))
                  /\ data.daily_entries[n].model =
                         IF KeyModels(key) \ {""} = {} THEN {"multiple models"}
                         ELSE KeyModels(key) \ {""}

\* A finished run in which two complete pending entries of different models
\* share a key and have become one entry.
C13_Witness ==
    /\ phase = "done"
    /\ \E m, n \in CompletePending :
          /\ m # n
          /\ KeyOf(m) = KeyOf(n)
          /\ daily_entries[m].model # daily_entries[n].model
    /\ Len(data.daily_entries) = 1

\* C14: in every report daily_entries is ordered non-increasing by parsed
\* calendar date, and every entry whose date is no calendar date comes after
\* all entries with a valid date.
C14_SortedByDateUnparsableLast ==
    phase = "done" =>
        \A m, n \in 1..Len(data.daily_entries) :
            m < n =>
                /\ parse_date_for_sorting(data.daily_entries[m].date)
                       >= parse_date_for_sorting(data.daily_entries[n].date)
                /\ ParseDate(data.daily_entries[m].date) = None
                       => ParseDate(data.daily_entries[n].date) = None

\* A report of two entries, a valid date before an unparsable one, which the
\* loop had met in the other order.
C14_Witness ==
    /\ phase = "done"
    /\ Len(data.daily_entries) = 2
    /\ ParseDate(data.daily_entries[1].date) # None
    /\ ParseDate(data.daily_entries[2].date) = None
    /\ \E n \in CompletePending :
          /\ \A m \in CompletePending : n <= m
          /\ KeyOf(n) = data.daily_entries[2].date

\* C15: daily_cost is the cost of the entry at index 0 of the sorted
\* daily_entries, the most recent date present whether or not it is today, and
\* 0 when the report has no entries.
C15_DailyCostIsMostRecentEntry ==
    phase = "done" =>
        data.daily_cost =
            IF data.daily_entries = <<>> THEN Some(0)
            ELSE Some(data.daily_entries[1].cost)

\* The entry's date parses and falls in the trailing window of the given
\* number of days: date >= now - days, counted in half days (a date is the
\* midnight that begins it, the clock reads midnight sharp or later that day).
InWindow(entry, days) ==
    /\ ParseDate(entry.date) # None
    /\ 2 * ParseDate(entry.date)[1] >= 2 * clock.day + clock.tod - 2 * days

RECURSIVE WindowCost(_, _)
\* The sum of the costs of the entries in the window.
WindowCost(entries, days) ==
    IF entries = <<>> THEN 0
    ELSE (IF InWindow(Head(entries), days) THEN Head(entries).cost ELSE 0)
             + WindowCost(Tail(entries), days)

\* C16, as claimed: weekly_cost is the sum of the costs of exactly the
\* entries whose parsed date is not before now - 7 days, and monthly_cost
\* likewise with 30 days, in every report.
C16_WindowCostsInEveryReport ==
    phase = "done" =>
        /\ data.weekly_cost = Some(WindowCost(data.daily_entries, WeekDays))
        /\ data.monthly_cost = Some(WindowCost(data.daily_entries, MonthDays))

\* C16, amended: in a report that has entries, weekly_cost is the sum of the
\* costs of exactly the entries whose parsed date is not before now - 7 days,
\* and monthly_cost likewise with 30 days; a report without entries has
\* neither cost.
C16_WindowCostsOfReportsWithEntries ==
    phase = "done" =>
        IF data.daily_entries = <<>>
        THEN data.weekly_cost = None /\ data.monthly_cost = None
        ELSE /\ data.weekly_cost = Some(WindowCost(data.daily_entries, WeekDays))
             /\ data.monthly_cost = Some(WindowCost(data.daily_entries, MonthDays))

\* A report read in the afternoon whose only entry is dated 7 days before
\* today: it is outside the week, by hours, and inside the month.
C16_Witness ==
    /\ phase = "done"
    /\ clock.tod = 1
    /\ Len(data.daily_entries) = 1
    /\ ParseDate(data.daily_entries[1].date) = Some(clock.day - WeekDays)
    /\ data.weekly_cost = Some(0)
    /\ data.monthly_cost = Some(data.daily_entries[1].cost)

\* The indices of the entries of the loop's list that wait for their date.
Incomplete(entries) == {n \in 1..Len(entries) : ~entries[n].complete}

\* The step of the loop that reads a continuation row.
ReadsDateRow ==
    /\ phase = "lines"
    /\ i <= Len(output)
    /\ i' = i + 1
    /\ current_year # NoneStr
    /\ IsDateRow(output[i])

\* C22: a continuation row sets the date of exactly one pending entry, the
\* most recently appended one that is still incomplete, and marks it
\* complete; it changes no entry that is already complete and no other
\* incomplete entry; and no step changes a completed entry afterwards.
C22_ContinuationCompletesLatestOnly ==
    [][/\ ReadsDateRow =>
            LET open == Incomplete(daily_entries)
                date_part == DateCol(CleanLine(output[i]))
            IN  /\ Len(daily_entries') >= Len(daily_entries)
                /\ \A n \in 1..Len(daily_entries) :
                      IF n \in open /\ \A j \in open : j <= n
                      THEN daily_entries'[n] =
                              [daily_entries[n] EXCEPT
                                  !.date_part = date_part, !.complete = TRUE]
                      ELSE daily_entries'[n] = daily_entries[n]
       /\ \A n \in 1..Len(daily_entries) :
             daily_entries[n].complete =>
                /\ n <= Len(daily_entries')
                /\ daily_entries'[n] = daily_entries[n]]_vars

\* Two year rows with a cost and a continuation row were read: the second
\* entry has the date and the first still waits.
C22_Witness ==
    /\ phase = "lines"
    /\ i = 4
    /\ Len(daily_entries) = 2
    /\ IsDateRow(output[3])
    /\ ~daily_entries[1].complete
    /\ daily_entries[2].complete
    /\ daily_entries[2].date_part = DateCol(CleanLine(output[3]))

\* C23: when two or more year rows with a cost are pending as a continuation
\* row is read, every one of those pending entries gets that row's date and
\* is complete: none is left to be dropped or to take the date of a later
\* continuation row.
C23_EveryPendingEntryGetsTheDate ==
    [][(ReadsDateRow /\ Cardinality(Incomplete(daily_entries)) >= 2) =>
        \A n \in Incomplete(daily_entries) :
            /\ daily_entries'[n].complete
            /\ daily_entries'[n].date_part = DateCol(CleanLine(output[i]))]_vars

\* The entries of the loop's list that have their date, in their order.
OnlyComplete(entries) == SelectSeq(entries, LAMBDA e : e.complete)

\* The total the lines of the input carry: the amount of the last line with
\* 'Total' and a '$' amount, None when there is none.
LastTotal ==
    IF TotalLines = {} THEN None
    ELSE LET last == CHOOSE k \in TotalLines : \A j \in TotalLines : j <= k
         IN  LineAmount(CleanLine(output[last]))

\* The report of a list of entries, a total and an instant.
ReportOf(entries, total_cost, clk) ==
    TimeCosts([NewData(total_cost, clk) EXCEPT
                  !.daily_entries =
                      SortEntries(<<>>, FinalEntries(GroupEntries(<<>>, entries)))],
              clk)

\* C24: at the end of input every pending entry that is still incomplete is
\* dropped: the report is a report and no error, and it is the report the
\* complete entries alone and the total lines of the input give, so that an
\* incomplete entry is in no entry of daily_entries and in no cost figure.
C24_IncompleteEntriesAreDropped ==
    (phase = "done" /\ Incomplete(daily_entries) # {}) =>
        /\ "daily_entries" \in DOMAIN data
        /\ "error" \notin DOMAIN data
        /\ data = ReportOf(OnlyComplete(daily_entries), LastTotal, clock)
        /\ Len(data.daily_entries) <= Len(OnlyComplete(daily_entries))

\* A finished run with a complete and an incomplete entry and one entry in
\* its report.
C24_Witness ==
    /\ phase = "done"
    /\ Incomplete(daily_entries) # {}
    /\ OnlyComplete(daily_entries) # <<>>
    /\ Len(data.daily_entries) = 1
    /\ data.weekly_cost # None

\* The positions of the report's entries whose date is no calendar date.
Unparsable == {n \in 1..Len(data.daily_entries) :
                  ParseDate(data.daily_entries[n].date) = None}

RECURSIVE UnparsableCost(_)
\* The sum of the costs of the entries whose date is no calendar date.
UnparsableCost(entries) ==
    IF entries = <<>> THEN 0
    ELSE (IF ParseDate(Head(entries).date) = None THEN Head(entries).cost ELSE 0)
             + UnparsableCost(Tail(entries))

\* C25: an entry whose date is no calendar date is still summed, with its
\* cost, into total_cost (of an input without a total line) and into
\* weekly_cost and monthly_cost, and it is not the entry at the head of the
\* sorted list, from which the most recent cost is taken, while an entry with
\* a calendar date exists.
C25_UnparsableDatesAreStillSummed ==
    (phase = "done" /\ Unparsable # {}) =>
        /\ TotalLines = {} =>
              data.total_cost = Some(Round2(SumCosts(data.daily_entries)))
        /\ data.weekly_cost =
              Some(Round2(WindowCost(data.daily_entries, WeekDays)
                          + UnparsableCost(data.daily_entries)))
        /\ data.monthly_cost =
              Some(Round2(WindowCost(data.daily_entries, MonthDays)
                          + UnparsableCost(data.daily_entries)))
        /\ Unparsable # 1..Len(data.daily_entries) => 1 \notin Unparsable

\* if len(columns) >= 8, the bound of the script minimal_test.py
ScriptMinColumns == 8

\* The step of the loop that reads a table line without a header token.
ReadsTableLine ==
    /\ phase = "lines"
    /\ i <= Len(output)
    /\ i' = i + 1
    /\ ~IsSkippedLine(CleanLine(output[i]))

\* C26: a table line split on the vertical bar is discarded if and only if
\* it has fewer than 8 columns: with fewer it changes nothing, and with 8 or
\* more it is read as a data row, so that a year row sets current_year and,
\* carrying a cost, appends a pending entry; a row of exactly 8 columns has
\* its cost read from its last column.
C26_RowsOfEightColumnsAreRead ==
    [][ReadsTableLine =>
        LET columns == CleanLine(output[i])
            year == YearToken(columns[2])
            cost == Amount(IF Len(columns) > ScriptMinColumns
                           THEN columns[ScriptMinColumns + 1]
                           ELSE columns[Len(columns)])
        IN  /\ Len(columns) < ScriptMinColumns =>
                  UNCHANGED <<current_year, daily_entries>>
            /\ (Len(columns) >= ScriptMinColumns /\ year # NoneStr) =>
                  /\ current_year' = year
                  /\ cost # None =>
                        /\ Len(daily_entries') = Len(daily_entries) + 1
                        /\ daily_entries'[Len(daily_entries')].cost = cost[1]]_vars

\* The step of the loop that reads a line with a column-header token.
ReadsHeaderLine ==
    /\ phase = "lines"
    /\ i <= Len(output)
    /\ i' = i + 1
    /\ LineHasHeaderToken(CleanLine(output[i]))

\* A border line, or a line with a header token and no '$' amount.
IsBorderOrHeader(line) ==
    \/ Len(line) = 1 /\ ~LineHasHeaderToken(CleanLine(line))
                     /\ LineAmount(CleanLine(line)) = None
    \/ LineHasHeaderToken(CleanLine(line)) /\ LineAmount(CleanLine(line)) = None

\* C27: a line with a column-header token and no '$' amount changes neither
\* the entries nor total_cost, so that an input of border and header lines
\* only gives a report without entries and without total; a line with a
\* header token and a '$' amount sets total_cost to that amount.
C27_HeaderLineWithAmountSetsTotal ==
    [][/\ ReadsHeaderLine =>
            LET amount == LineAmount(CleanLine(output[i]))
            IN  /\ UNCHANGED <<current_year, daily_entries>>
                /\ data'.daily_entries = data.daily_entries
                /\ IF amount = None THEN data'.total_cost = data.total_cost
                   ELSE data'.total_cost = amount
       /\ (phase' = "done"
              /\ \A k \in 1..Len(output) : IsBorderOrHeader(output[k])) =>
            /\ data'.daily_entries = <<>>
            /\ data'.total_cost = None]_vars

\* A table row the loop has no use for: too few columns, or a date column
\* with neither a year nor a month and day, or a month and day before any
\* year was seen.
IsIgnoredRow(line, year_seen) ==
    LET columns == CleanLine(line)
    IN  /\ ~IsSkippedLine(columns)
        /\ \/ Len(columns) < MinColumns
           \/ /\ YearToken(DateCol(columns)) = NoneStr
              /\ MonthDay(DateCol(columns)) = <<>>
           \/ /\ YearToken(DateCol(columns)) = NoneStr
              /\ MonthDay(DateCol(columns)) # <<>>
              /\ year_seen = NoneStr

\* The sequence without its element at position k.
RemoveAt(seq, k) == SubSeq(seq, 1, k - 1) \o SubSeq(seq, k + 1, Len(seq))

\* The rows of the input that are ignored whatever precedes them.
AlwaysIgnored == {k \in 1..Len(output) : IsIgnoredRow(output[k], "2025")}

\* C28: a row with too few columns, or whose date column holds neither a
\* year nor a month and day, or that holds a month and day while no year has
\* been seen, raises no error and leaves current_year and the pending entries
\* as they are, and the total as well: the report is the one the input gives
\* without the row.
C28_IgnoredRowsChangeNothing ==
    [][/\ (ReadsTableLine /\ IsIgnoredRow(output[i], current_year)) =>
            /\ UNCHANGED <<current_year, daily_entries, data>>
            /\ phase' = "lines"
       /\ phase' = "done" =>
            /\ "error" \notin DOMAIN data'
            /\ \A k \in AlwaysIgnored :
                  data' = ParseReport(RemoveAt(output, k), clock)]_vars

\* A year row with a cost was read and then a row of five columns: the
\* pending entry and the year are as the year row left them.
C28_Witness ==
    /\ phase = "lines"
    /\ i = 3
    /\ IsYearRow(output[1])
    /\ ~IsSkippedLine(CleanLine(output[2]))
    /\ Len(output[2]) < MinColumns
    /\ Len(daily_entries) = 1
    /\ current_year = YearToken(DateCol(CleanLine(output[1])))

\* C29: in every report computed from at least one entry, daily_cost is at
\* most weekly_cost and weekly_cost is at most monthly_cost.
C29_DailyWeeklyMonthlyAscend ==
    (phase = "done" /\ data.daily_entries # <<>>) =>
        /\ data.daily_cost # None
        /\ data.weekly_cost # None
        /\ data.monthly_cost # None
        /\ data.daily_cost[1] <= data.weekly_cost[1]
        /\ data.weekly_cost[1] <= data.monthly_cost[1]

\* A report with an entry of today and an entry of another day of the week:
\* the daily cost is not zero and the weekly cost is more.
C29_Witness ==
    /\ phase = "done"
    /\ Len(data.daily_entries) = 2
    /\ data.daily_cost # None
    /\ data.daily_cost[1] > 0
    /\ data.daily_cost[1] < data.weekly_cost[1]
    /\ data.weekly_cost[1] <= data.monthly_cost[1]

\* --------------------------------------------------- claims: the sanitizer

\* C17: sanitizing already-sanitized text changes nothing: the second
\* application of the sanitizer leaves its result as it is.
C17_SanitizeIsIdempotent ==
    [][(passes = 1 /\ passes' = 2) => clean_text' = clean_text]_vars

\* The newlines and vertical bars of a text, in their order.
Skeleton(chars) == SelectSeq(chars, LAMBDA c : c \in {"\n", "|"})

\* The number of newlines of a text.
Newlines(chars) == Len(SelectSeq(chars, LAMBDA c : c = "\n"))

LiveRecords == {rec \in cache : rec.cache_key = CacheKey /\ now < rec.expires_at}

\* A request for execute_ccusage is taken up by handler r in this step.
Requested(r) == pc[r] = "Idle" /\ pc'[r] # "Idle"

\* C19: for every cache record and instant, is_expired is true exactly when
\* now >= expires_at, which is exactly when a lookup at that instant treats
\* the record as absent.
C19_IsExpiredAgreesWithLookup ==
    \A rec \in cache :
        /\ is_expired(rec, now) <=> now >= rec.expires_at
        /\ is_expired(rec, now) <=> rec \notin CacheGet(cache, rec.cache_key, now)

\* C3: a lookup of the cache key, by get_cached_data or by execute_ccusage,
\* returns the stored data exactly when a record exists with now < expires_at;
\* at now = expires_at, which is where a record stored with ttl 0 stands from
\* the start, the lookup is a miss; and a lookup leaves the records, expired
\* ones included, in the store.
C3_LookupReturnsUnexpiredOnly ==
    [][ /\ (lookup = NoResponse /\ lookup' # NoResponse) =>
              /\ lookup'.success <=> LiveRecords # {}
              /\ lookup'.success =>
                    \E rec \in LiveRecords : lookup'.data = rec.data
              /\ cache' = cache
        /\ \A r \in Requests :
              Requested(r) =>
                  /\ pc'[r] = "Cached" <=> LiveRecords # {}
                  /\ pc'[r] = "Cached" =>
                        \E rec \in LiveRecords : resp'[r].data = rec.data
                  /\ cache' = cache ]_vars

\* A lookup made at the very instant a record expires has missed, and the
\* record is still in the store.
C3_Witness ==
    /\ lookup # NoResponse
    /\ ~lookup.success
    /\ lookup.at = now
    /\ \E rec \in cache : rec.cache_key = CacheKey /\ rec.expires_at = now

\* C4: a request taken up while a record of the key has not expired returns
\* that record's data with cached: true, starts no subprocess and leaves the
\* cache and the stored runs as they are.
C4_HitServesRecordAndChangesNothing ==
    [][ \A r \in Requests :
          (Requested(r) /\ LiveRecords # {}) =>
              /\ pc'[r] = "Cached"
              /\ resp'[r].success
              /\ resp'[r].cached
              /\ \E rec \in LiveRecords : resp'[r].data = rec.data
              /\ invocations' = invocations
              /\ proc' = proc
              /\ cache' = cache
              /\ history' = history ]_vars

\* A hit served some time after the run that stored the record.
C4_Witness ==
    \E r \in Requests :
        /\ pc[r] = "Cached"
        /\ resp[r].cached
        /\ history # <<>>
        /\ now > history[Len(history)].execution_timestamp

\* C5: when the tool exits with a non-zero status or is still running when
\* the timeout is over, the request fails, with the tool's stderr in the first
\* case and the timeout as the reason in the second, and the failing request
\* writes neither the cache nor the stored runs.
C5_FailureWritesNothing ==
    [][ \A r \in Requests :
          (pc[r] = "Invoking" /\ pc'[r] # "Invoking") =>
              CASE proc'[r].state = "exited" /\ proc'[r].returncode # 0 ->
                      /\ pc'[r] = "Failed"
                      /\ ~resp'[r].success
                      /\ resp'[r].stderr = proc'[r].stderr
                      /\ cache' = cache
                      /\ history' = history
                [] proc'[r].state = "exited" /\ proc'[r].returncode = 0 ->
                      pc'[r] = "Parsing"
                [] OTHER ->
                      /\ now >= proc[r].started + TimeoutSec
                      /\ pc'[r] = "Failed"
                      /\ ~resp'[r].success
                      /\ resp'[r].error = "Command execution timed out"
                      /\ cache' = cache
                      /\ history' = history ]_vars

\* A request has failed on the tool's exit status while the cache holds the
\* value of an earlier run.
C5_Witness ==
    \E r \in Requests :
        /\ pc[r] = "Failed"
        /\ proc[r].state = "exited"
        /\ resp[r].stderr = "auth error"
        /\ cache # {}

\* A well-formed report, as opposed to the parser's error dict.
IsReport(d) == "daily_entries" \in DOMAIN d

\* C6: a request that misses the cache and whose tool exits with status 0
\* stores its parsed result under the cache key and returns it with cached:
\* false; and every request taken up less than 5 minutes after a store, with
\* no clear since, returns the data of that store with cached: true.  The
\* second part is stated for the runs in which no parse has raised.
C6_StoredResultServedForFiveMinutes ==
    [][ \A r \in Requests :
          /\ (pc[r] = "Parsing" /\ pc'[r] = "Cached") =>
                /\ ~resp'[r].cached
                /\ \E rec \in cache' :
                      rec.cache_key = CacheKey /\ rec.data = resp'[r].data
          /\ (Requested(r) /\ \A j \in 1..Len(stores) : IsReport(stores[j].data)) =>
                \A k \in 1..Len(stores) :
                    now < stores[k].at + TTLSec =>
                        /\ pc'[r] = "Cached"
                        /\ resp'[r].cached
                        /\ resp'[r].data = stores[k].data ]_vars

\* C7: when a parsing stage raises, the caller does not get the error payload
\* as a successful report, and the cache holds nothing but well-formed reports.
C7_ErrorPayloadNeitherServedNorCached ==
    /\ \A r \in Requests : pc[r] = "Cached" => IsReport(resp[r].data)
    /\ \A rec \in cache : IsReport(rec.data)

\* C8: at most one invocation of the tool for the cache key is outstanding at
\* any time.
C8_AtMostOneInvocationOutstanding ==
    Cardinality({r \in Requests : proc[r].state = "running"}) <= 1

\* C9: the cache holds at most one record of the cache key; after a clear it
\* holds none; otherwise its record holds the data of the latest store and
\* expires 5 minutes after the instant of that store.
C9_OneRecordOfTheLatestStore ==
    /\ Cardinality({rec \in cache : rec.cache_key = CacheKey}) <= 1
    /\ IF stores = <<>> THEN cache = {}
       ELSE \E rec \in cache :
               /\ rec.cache_key = CacheKey
               /\ rec.data = stores[Len(stores)].data
               /\ rec.expires_at = stores[Len(stores)].at + TTLMinutes * 60

\* A second store, later than the first, has overwritten the record.
C9_Witness ==
    /\ Len(stores) = 2
    /\ stores[1].at < stores[2].at
    /\ stores[1].data # stores[2].data
    /\ \E rec \in cache : rec.created_at = stores[1].at

\* C10: a request never waits for the tool beyond the 30 seconds, the tool
\* runs only while its request waits for it (it is killed when the wait ends
\* on the timeout), and every request that has started the tool ends with a
\* response, Cached or Failed.
C10_RequestEndsAndToolIsKilled ==
    /\ [](\A r \in Requests :
              proc[r].state = "running" =>
                  pc[r] = "Invoking" /\ now <= proc[r].started + TimeoutSec)
    /\ \A r \in Requests :
          (pc[r] \in {"Invoking", "Parsing"})
              ~> (pc[r] \in {"Cached", "Failed"} /\ resp[r] # NoResponse)

\* A request has failed on the timeout, 30 seconds after it started the tool,
\* and the tool is killed.
C10_Witness ==
    \E r \in Requests :
        /\ pc[r] = "Failed"
        /\ proc[r].state = "killed"
        /\ now = proc[r].started + TimeoutSec
        /\ resp[r].status = 408

\* C30: the timestamp returned with a cache hit is the time at which the
\* returned data was stored in the cache, also when the record was created by
\* an earlier run and overwritten by a later one.
C30_HitTimestampIsTimeOfStore ==
    [][ \A r \in Requests :
          (Requested(r) /\ LiveRecords # {}) =>
              /\ stores # <<>>
              /\ resp'[r].cached
              /\ resp'[r].data = stores[Len(stores)].data
              /\ resp'[r].timestamp = stores[Len(stores)].at ]_vars

\* ------------------------------------------- claims: the frontend control

\* The body is a JSON object whose hours, minutes and seconds are integers,
\* none negative, minutes and seconds below 60.
IsValidTime(body) ==
    /\ body.kind = "object"
    /\ \A key \in TimerKeys :
          Get(body, key).type = "int" /\ Get(body, key).val >= 0
    /\ Get(body, "minutes").val < MinutesSecondsLimit
    /\ Get(body, "seconds").val < MinutesSecondsLimit

\* The errors that name something wrong with the body.
MatchingErrors(body) ==
    {"Hours, minutes, and seconds must be integers" : k \in
        {key \in TimerKeys :
            body.kind # "object" \/ Get(body, key).type # "int"}}
    \cup {"Time values cannot be negative" : k \in
        {key \in TimerKeys : Get(body, key).val < 0}}
    \cup {"Minutes and seconds must be less than 60" : k \in
        {key \in {"minutes", "seconds"} :
            Get(body, key).val >= MinutesSecondsLimit}}

\* C20: timer_set accepts a request if and only if hours, minutes and
\* seconds are all integers, none is negative, and minutes and seconds are
\* below 60; a rejected request is answered with status 400 and an error
\* that names what is wrong and leaves the trigger files as they were, an
\* accepted one writes the timer-set trigger holding the three values and
\* is answered with the time as HH:MM:SS.
C20_TimerSetAcceptsExactlyValidTimes ==
    [][request' # NoRequest =>
        LET body == request'
            hours == Get(body, "hours")
            minutes == Get(body, "minutes")
            seconds == Get(body, "seconds")
        IN  /\ (response'.status = 200) <=> IsValidTime(body)
            /\ ~IsValidTime(body) =>
                  /\ response'.status = 400
                  /\ response'.error \in MatchingErrors(body)
                  /\ trigger_files' = trigger_files
            /\ IsValidTime(body) =>
                  /\ trigger_files'["timer-set"] # None
                  /\ trigger_files'["timer-set"][1].type = "timer-set"
                  /\ trigger_files'["timer-set"][1].data =
                        Some([hours |-> hours, minutes |-> minutes,
                              seconds |-> seconds])
                  /\ response'.time = TimeStr(hours, minutes, seconds)
                  /\ Len(response'.time) >= 8]_vars

\* The step on which terminal_status returns its response.
TerminalStatusReturns == waiting /\ ~waiting'

\* C21: when the status file /tmp/claude-code-terminal-status exists,
\* terminal_status returns success with the active terminal and the state of
\* each terminal (name, running flag, current command) recorded in that
\* file.
C21_StatusIsReadFromStatusFile ==
    [][(TerminalStatusReturns /\ status_file # None) =>
        /\ response'.status = 200
        /\ response'.success
        /\ response'.active_terminal = status_file[1].active_terminal
        /\ response'.terminals = status_file[1].terminals]_vars

=============================================================================
